---- MODULE Spec2Model ----
\* The in-memory todo collection of src/main.py: the module-level list
\* all_todos and the five request handlers that read and mutate it.
EXTENDS Integers, Sequences, FiniteSets, TLC

VARIABLES
    all_todos,      \* the module-level list of Todo records, in storage order
    response,       \* the last request and what its handler did
    ever_ids,       \* history: every id that has been in all_todos so far
    n_updates,      \* how many update_todo calls matched a record so far
    serialized,     \* threaded runs: TRUE when create_todo runs behind one lock
    pc,             \* threaded runs: each worker thread's position in create_todo
    new_todo_id,    \* threaded runs: each thread's local new_todo_id
    todo_arg        \* threaded runs: each thread's validated TodoCreate argument

vars == <<all_todos, response, ever_ids, n_updates, serialized, pc, new_todo_id, todo_arg>>

raceVars == <<serialized, pc, new_todo_id, todo_arg>>

-----------------------------------------------------------------------------
\* Bounds of the model.

\* create_todo is explored while the id it assigns is at most MaxId.
MaxId == 6
\* update_todo is explored for at most MaxUpdates matching calls.
MaxUpdates == 1
\* first_n ranges over -MaxN..MaxN.
MaxN == 2
\* threaded runs: create_todo is explored while the id it computes is at most MaxRaceId.
MaxRaceId == 8

-----------------------------------------------------------------------------
\* PriorityLevel(IntEnum)
LOW == 3
MEDIUM == 2
HIGH == 1

PriorityLevel == {LOW, MEDIUM, HIGH}

\* Field constraints of TodoBase.
NameMinLength == 2
NameMaxLength == 150
DescriptionMaxLength == 300

\* The default of the first_n query parameter.
DefaultFirstN == 3

-----------------------------------------------------------------------------
\* Texts.  Strings are TLA+ strings; Len gives their length in characters.
X10 == "xxxxxxxxxx"
X50 == X10 \o X10 \o X10 \o X10 \o X10
\* A name of 151 characters and a description of 301.
Name151 == "n" \o X50 \o X50 \o X50
Desc301 == "d" \o X50 \o X50 \o X50 \o X50 \o X50 \o X50

\* Optional[T]: None is the empty tuple, a value v is <<v>>.
None == <<>>
Some(v) == <<v>>
IsNone(x) == x = None
Value(x) == x[1]

\* A request body as received, before validation: each field given or not.
Body(name, description, priority, completed) ==
    [todo_name |-> name, todo_description |-> description,
     priority |-> priority, completed |-> completed]

NoBody == Body(None, None, None, None)

\* Todo(todo_id=..., todo_name=..., ...)
Todo(id, name, description, priority, completed) ==
    [todo_id |-> id, todo_name |-> name, todo_description |-> description,
     priority |-> priority, completed |-> completed]

\* The seed list.
SeedTodos ==
    << Todo(1, "Buy groceries", "Milk, Bread, Eggs", MEDIUM, FALSE),
       Todo(2, "Read a book", "Finish reading 'The Great Gatsby'", LOW, FALSE),
       Todo(3, "Sports", "Play football", HIGH, TRUE),
       Todo(4, "Workout", "Go to the gym for a workout session", HIGH, FALSE),
       Todo(5, "Call Mom", "Catch up with Mom over the phone", MEDIUM, FALSE) >>

-----------------------------------------------------------------------------
\* Request validation done by the framework before a handler runs.

\* TodoCreate (= TodoBase): todo_name and todo_description are required (Field(...))
\* with their length constraints; priority is declared with Field(defaul=...), which
\* sets no default, so it is required as well; completed defaults to False.
TodoCreateValid(body) ==
    /\ ~IsNone(body.todo_name)
    /\ Len(Value(body.todo_name)) >= NameMinLength
    /\ Len(Value(body.todo_name)) <= NameMaxLength
    /\ ~IsNone(body.todo_description)
    /\ Len(Value(body.todo_description)) <= DescriptionMaxLength
    /\ ~IsNone(body.priority)
    /\ Value(body.priority) \in PriorityLevel

\* The validated TodoCreate object: completed takes its default when not given.
TodoCreateParse(body) ==
    [body EXCEPT !.completed = IF IsNone(body.completed) THEN Some(FALSE) ELSE body.completed]

\* TodoUpdate redeclares the four fields as Optional[...] = None, which replaces the
\* constrained fields of TodoBase: only the types are checked.
TodoUpdateValid(body) ==
    IF IsNone(body.priority) THEN TRUE ELSE Value(body.priority) \in PriorityLevel

-----------------------------------------------------------------------------
\* Helpers over the list.

Ids(todos) == {todos[i].todo_id : i \in 1..Len(todos)}

Max(S) == CHOOSE m \in S : \A x \in S : x <= m

\* Faulty variant: a miss is reported as the last index the loop visited.
FindFirst_LastOnMiss(todos, todo_id) ==
    IF \E i \in 1..Len(todos) : todos[i].todo_id = todo_id
    THEN CHOOSE i \in 1..Len(todos) :
            /\ todos[i].todo_id = todo_id
            /\ \A j \in 1..(i - 1) : todos[j].todo_id # todo_id
    ELSE Len(todos)

\* Index of the first record whose todo_id matches, 0 when the loop ends without one.
FindFirst(todos, todo_id) ==
    IF \E i \in 1..Len(todos) : todos[i].todo_id = todo_id
    THEN CHOOSE i \in 1..Len(todos) :
            /\ todos[i].todo_id = todo_id
            /\ \A j \in 1..(i - 1) : todos[j].todo_id # todo_id
    ELSE 0

\* Faulty variant: the maximum id itself, without the + 1.
NextTodoId_NoIncrement(todos) == Max(Ids(todos))

\* Faulty variant: len(all_todos) + 1 in place of the maximum id + 1.
NextTodoId_Len(todos) == Len(todos) + 1

\* Faulty variant: min() in place of max().
NextTodoId_Min(todos) == (CHOOSE m \in Ids(todos) : \A x \in Ids(todos) : m <= x) + 1

\* max(todo.todo_id for todo in all_todos) + 1; max() of an empty list raises.
NextTodoId(todos) == Max(Ids(todos)) + 1

\* Todo(todo_id=new_todo_id, todo_name=todo.todo_name, ...)
NewTodo(id, todo) ==
    Todo(id, Value(todo.todo_name), Value(todo.todo_description),
         Value(todo.priority), Value(todo.completed))

\* Faulty variant: the priority branch is missing.
MergePatch_NoPriority(todo, updated_todo) ==
    [todo_id |-> todo.todo_id,
     todo_name |-> IF ~IsNone(updated_todo.todo_name)
                   THEN Value(updated_todo.todo_name) ELSE todo.todo_name,
     todo_description |-> IF ~IsNone(updated_todo.todo_description)
                          THEN Value(updated_todo.todo_description)
                          ELSE todo.todo_description,
     priority |-> todo.priority,
     completed |-> IF ~IsNone(updated_todo.completed)
                   THEN Value(updated_todo.completed) ELSE todo.completed]

\* The four "if updated_todo.X is not None: todo.X = updated_todo.X" statements.
MergePatch(todo, updated_todo) ==
    [todo_id |-> todo.todo_id,
     todo_name |-> IF ~IsNone(updated_todo.todo_name)
                   THEN Value(updated_todo.todo_name) ELSE todo.todo_name,
     todo_description |-> IF ~IsNone(updated_todo.todo_description)
                          THEN Value(updated_todo.todo_description)
                          ELSE todo.todo_description,
     priority |-> IF ~IsNone(updated_todo.priority)
                  THEN Value(updated_todo.priority) ELSE todo.priority,
     completed |-> IF ~IsNone(updated_todo.completed)
                   THEN Value(updated_todo.completed) ELSE todo.completed]

\* Faulty variant: all_todos.pop() without the index, which removes the last element.
Pop_Last(todos, index) == SubSeq(todos, 1, Len(todos) - 1)

\* all_todos.pop(index), index counted from 1 here: the list without that element.
Pop(todos, index) ==
    [i \in 1..(Len(todos) - 1) |-> IF i < index THEN todos[i] ELSE todos[i + 1]]

\* todos[:n] of a Python list: a negative n counts from the end.
SliceTo(todos, n) ==
    LET stop == IF n < 0
                THEN (IF Len(todos) + n < 0 THEN 0 ELSE Len(todos) + n)
                ELSE (IF n > Len(todos) THEN Len(todos) ELSE n)
    IN  SubSeq(todos, 1, stop)

\* "if first_n:" then all_todos[:first_n], else all_todos.
FirstN(todos, first_n) ==
    IF first_n # 0 THEN SliceTo(todos, first_n) ELSE todos

-----------------------------------------------------------------------------
\* What a handler call does: the list it leaves (todos), how it ended (outcome:
\* "return", "HTTPException", "ValueError", "RequestValidationError"), the status
\* code (200 for a normal return; the serialization of the returned value through
\* response_model is not part of the model), and the records it hands back (result).
Outcome(todos, outcome, status_code, result) ==
    [todos |-> todos, outcome |-> outcome, status_code |-> status_code, result |-> result]

\* raise HTTPException(status_code=404, detail="Todo not found")
NotFound(todos) == Outcome(todos, "HTTPException", 404, <<>>)

\* GET /todo/{todo_id}
GetTodo(todos, todo_id) ==
    LET index == FindFirst(todos, todo_id) IN
    IF index # 0
    THEN Outcome(todos, "return", 200, <<todos[index]>>)
    ELSE NotFound(todos)

\* GET /todo?first_n=...   (the second get_todo of the source); param is the query
\* parameter as received, None when the request has none.
GetTodoFirstN(todos, param) ==
    LET first_n == IF IsNone(param) THEN DefaultFirstN ELSE Value(param) IN
    Outcome(todos, "return", 200, FirstN(todos, first_n))

\* POST /todo
CreateTodo(todos, body) ==
    IF ~TodoCreateValid(body)
    THEN Outcome(todos, "RequestValidationError", 422, <<>>)
    ELSE IF todos = <<>>
    THEN Outcome(todos, "ValueError", 500, <<>>)
    ELSE Outcome(Append(todos, NewTodo(NextTodoId(todos), TodoCreateParse(body))),
                 "HTTPException", 201, <<>>)

\* PUT /todo/{todo_id}
UpdateTodo(todos, todo_id, updated_todo) ==
    LET index == FindFirst(todos, todo_id) IN
    IF ~TodoUpdateValid(updated_todo)
    THEN Outcome(todos, "RequestValidationError", 422, <<>>)
    ELSE IF index # 0
    THEN LET todo == MergePatch(todos[index], updated_todo) IN
         Outcome([todos EXCEPT ![index] = todo], "return", 200, <<todo>>)
    ELSE NotFound(todos)

\* DELETE /todo/{todo_id}
DeleteTodo(todos, todo_id) ==
    LET index == FindFirst(todos, todo_id) IN
    IF index # 0
    THEN Outcome(Pop(todos, index), "return", 200, <<todos[index]>>)
    ELSE NotFound(todos)

-----------------------------------------------------------------------------
\* The requests explored.

\* todo_id path parameters: MaxId + 1 is never assigned, so a miss always exists.
TodoIds == 1..(MaxId + 1)

\* first_n query parameters; None stands for a request without the parameter.
FirstNs == {None} \cup {Some(n) : n \in (0 - MaxN)..MaxN}

\* POST bodies: the scenario of the specification, the same without a priority,
\* and the length boundaries of both text fields.
CreateBodies ==
    { Body(Some("Call Dad"), Some(""), Some(MEDIUM), None),
      Body(Some("Call Dad"), Some(""), None, None),
      Body(Some("a"), Some(""), Some(LOW), None),
      Body(Some(Name151), Some(""), Some(LOW), None),
      Body(Some("Call Dad"), Some(Desc301), Some(LOW), None) }

\* PUT bodies: the empty patch, the one-field patch of the specification's example,
\* and a patch of three fields whose texts are out of TodoBase's ranges.
UpdateBodies ==
    { NoBody,
      Body(None, None, None, Some(TRUE)),
      Body(Some("a"), Some(Desc301), Some(HIGH), None) }

-----------------------------------------------------------------------------
\* The state machine: one request at a time.

\* The record kept of the last request.
Response(op, out) ==
    [op |-> op, outcome |-> out.outcome, status_code |-> out.status_code]

get_todo(todo_id) ==
    LET out == GetTodo(all_todos, todo_id) IN
    /\ all_todos' = out.todos
    /\ response' = Response("get_todo", out)
    /\ UNCHANGED <<ever_ids, n_updates>>

get_todo_first_n(param) ==
    LET out == GetTodoFirstN(all_todos, param) IN
    /\ all_todos' = out.todos
    /\ response' = Response("get_todo_first_n", out)
    /\ UNCHANGED <<ever_ids, n_updates>>

create_todo(body) ==
    LET out == CreateTodo(all_todos, body) IN
    /\ \A id \in Ids(out.todos) : id <= MaxId
    /\ all_todos' = out.todos
    /\ ever_ids' = ever_ids \cup Ids(out.todos)
    /\ response' = Response("create_todo", out)
    /\ UNCHANGED n_updates

update_todo(todo_id, updated_todo) ==
    LET out == UpdateTodo(all_todos, todo_id, updated_todo) IN
    /\ n_updates' = IF out.outcome = "return" THEN n_updates + 1 ELSE n_updates
    /\ n_updates' <= MaxUpdates
    /\ all_todos' = out.todos
    /\ response' = Response("update_todo", out)
    /\ UNCHANGED ever_ids

delete_todo(todo_id) ==
    LET out == DeleteTodo(all_todos, todo_id) IN
    /\ all_todos' = out.todos
    /\ response' = Response("delete_todo", out)
    /\ UNCHANGED <<ever_ids, n_updates>>

-----------------------------------------------------------------------------
\* Before the first request.
NoResponse == [op |-> "none", outcome |-> "none", status_code |-> 0]

Init ==
    /\ all_todos = SeedTodos
    /\ response = NoResponse
    /\ ever_ids = Ids(SeedTodos)
    /\ n_updates = 0
    /\ serialized = TRUE
    /\ pc = <<>>
    /\ new_todo_id = <<>>
    /\ todo_arg = <<>>

Next ==
    \/ \E todo_id \in TodoIds : get_todo(todo_id) /\ UNCHANGED raceVars
    \/ \E param \in FirstNs : get_todo_first_n(param) /\ UNCHANGED raceVars
    \/ \E body \in CreateBodies : create_todo(body) /\ UNCHANGED raceVars
    \/ \E todo_id \in TodoIds, body \in UpdateBodies :
            update_todo(todo_id, body) /\ UNCHANGED raceVars
    \/ \E todo_id \in TodoIds : delete_todo(todo_id) /\ UNCHANGED raceVars

Spec == Init /\ [][Next]_vars

-----------------------------------------------------------------------------
\* create_todo on the threads of the worker pool.  A sync handler runs on a pool
\* thread, and a thread switch can fall between the statement that computes
\* new_todo_id and the append: the handler is two steps, scan and append.

\* The two pool threads that run create_todo.
Threads == {1, 2}

\* The lock of the serialized variant is free when no thread is inside create_todo.
LockFree == \A t \in Threads : pc[t] = "idle"

\* new_todo_id = max(todo.todo_id for todo in all_todos) + 1, after the framework
\* validated the body; an invalid body is answered without running the handler.
create_todo_scan(t, body) ==
    /\ pc[t] = "idle"
    /\ IF ~TodoCreateValid(body)
       THEN /\ response' = [op |-> "create_todo", outcome |-> "RequestValidationError",
                            status_code |-> 422]
            /\ UNCHANGED <<pc, new_todo_id, todo_arg>>
       ELSE IF all_todos = <<>>
       THEN /\ serialized => LockFree
            /\ response' = [op |-> "create_todo", outcome |-> "ValueError",
                            status_code |-> 500]
            /\ UNCHANGED <<pc, new_todo_id, todo_arg>>
       ELSE /\ serialized => LockFree
            /\ NextTodoId(all_todos) <= MaxRaceId
            /\ new_todo_id' = [new_todo_id EXCEPT ![t] = NextTodoId(all_todos)]
            /\ todo_arg' = [todo_arg EXCEPT ![t] = TodoCreateParse(body)]
            /\ pc' = [pc EXCEPT ![t] = "append"]
            /\ UNCHANGED response
    /\ UNCHANGED <<all_todos, ever_ids, n_updates, serialized>>

\* new_todo = Todo(todo_id=new_todo_id, ...); all_todos.append(new_todo);
\* raise HTTPException(status_code=201, ...)
create_todo_append(t) ==
    /\ pc[t] = "append"
    /\ all_todos' = Append(all_todos, NewTodo(new_todo_id[t], todo_arg[t]))
    /\ ever_ids' = ever_ids \cup {new_todo_id[t]}
    /\ response' = [op |-> "create_todo", outcome |-> "HTTPException", status_code |-> 201]
    /\ pc' = [pc EXCEPT ![t] = "idle"]
    /\ UNCHANGED <<new_todo_id, todo_arg, n_updates, serialized>>

InitRace ==
    /\ all_todos = SeedTodos
    /\ response = NoResponse
    /\ ever_ids = Ids(SeedTodos)
    /\ n_updates = 0
    /\ serialized \in BOOLEAN
    /\ pc = [t \in Threads |-> "idle"]
    /\ new_todo_id = [t \in Threads |-> 0]
    /\ todo_arg = [t \in Threads |-> NoBody]

NextRace ==
    \/ \E t \in Threads, body \in CreateBodies : create_todo_scan(t, body)
    \/ \E t \in Threads : create_todo_append(t)

SpecRace == InitRace /\ [][NextRace]_vars

-----------------------------------------------------------------------------
\* Properties.

\* The list without the records whose todo_id is id, in the same order.
Without(todos, id) ==
    LET keep(r) == r.todo_id # id IN SelectSeq(todos, keep)

\* The record of the list whose todo_id is id.
RecordWith(todos, id) ==
    CHOOSE r \in {todos[i] : i \in 1..Len(todos)} : r.todo_id = id

Last(todos) == todos[Len(todos)]

Min2(a, b) == IF a < b THEN a ELSE b

\* C1: in every reachable state no two records of all_todos have the same todo_id.
IdsUnique ==
    \A i, j \in 1..Len(all_todos) :
        i # j => all_todos[i].todo_id # all_todos[j].todo_id

\* A create succeeded after an update and after more deletes than creates.
IdsUniqueWitness ==
    /\ response.op = "create_todo"
    /\ response.status_code = 201
    /\ n_updates > 0
    /\ Len(all_todos) < Len(SeedTodos)

\* C2: every stored Todo has a todo_name of 2 to 150 characters and a
\* todo_description of at most 300 characters.
FieldBounds ==
    \A i \in 1..Len(all_todos) :
        /\ Len(all_todos[i].todo_name) >= NameMinLength
        /\ Len(all_todos[i].todo_name) <= NameMaxLength
        /\ Len(all_todos[i].todo_description) <= DescriptionMaxLength

\* C3: for an id that matches no record, get, update (with any body) and delete end
\* with HTTPException 404 and leave all_todos exactly as it was; and a request
\* answered 404 has changed nothing in all_todos.
NotFoundLeavesStore ==
    /\ [](\A id \in TodoIds \ Ids(all_todos) :
            LET missed == Outcome(all_todos, "HTTPException", 404, <<>>) IN
            /\ GetTodo(all_todos, id) = missed
            /\ DeleteTodo(all_todos, id) = missed
            /\ \A body \in UpdateBodies : UpdateTodo(all_todos, id, body) = missed)
    /\ [][response'.status_code = 404 => all_todos' = all_todos]_vars

\* A delete of an id that is no longer in the list was answered 404.
NotFoundWitness ==
    /\ response.op = "delete_todo"
    /\ response.status_code = 404
    /\ Len(all_todos) < Len(SeedTodos)
    /\ n_updates > 0

\* C4: update of an existing id sets exactly the fields the body gives and leaves
\* the other fields, the todo_id, every other record, the length and the order as
\* they were; with the empty body all_todos is unchanged.
UpdateMergesPatch ==
    /\ [](\A id \in Ids(all_todos) : \A body \in UpdateBodies :
            LET out == UpdateTodo(all_todos, id, body) IN
            /\ out.outcome = "return"
            /\ Len(out.todos) = Len(all_todos)
            /\ \A i \in 1..Len(all_todos) :
                 IF all_todos[i].todo_id = id
                 THEN /\ out.todos[i].todo_id = id
                      /\ out.todos[i].todo_name =
                            IF IsNone(body.todo_name) THEN all_todos[i].todo_name
                            ELSE Value(body.todo_name)
                      /\ out.todos[i].todo_description =
                            IF IsNone(body.todo_description)
                            THEN all_todos[i].todo_description
                            ELSE Value(body.todo_description)
                      /\ out.todos[i].priority =
                            IF IsNone(body.priority) THEN all_todos[i].priority
                            ELSE Value(body.priority)
                      /\ out.todos[i].completed =
                            IF IsNone(body.completed) THEN all_todos[i].completed
                            ELSE Value(body.completed)
                 ELSE out.todos[i] = all_todos[i]
            /\ (body = NoBody => out.todos = all_todos))
    /\ [][response'.op = "update_todo"
          => /\ Len(all_todos') = Len(all_todos)
             /\ \A i \in 1..Len(all_todos) :
                  all_todos'[i].todo_id = all_todos[i].todo_id]_vars

\* An update gave the first record a new name and priority and kept its
\* completed flag.
UpdateWitness ==
    /\ response.op = "update_todo"
    /\ response.status_code = 200
    /\ Len(all_todos) > 0
    /\ all_todos[1].todo_id = 1
    /\ all_todos[1].todo_name = "a"
    /\ all_todos[1].priority = HIGH
    /\ all_todos[1].completed = SeedTodos[1].completed

\* C5: a create with an accepted body appends one record whose todo_id is
\* 1 + the maximum id of all_todos, or 1 when all_todos is empty.
CreateAssignsNextId ==
    [][(response'.op = "create_todo" /\ response'.outcome # "RequestValidationError")
         => /\ Len(all_todos') = Len(all_todos) + 1
            /\ SubSeq(all_todos', 1, Len(all_todos)) = all_todos
            /\ Last(all_todos').todo_id =
                  IF all_todos = <<>> THEN 1 ELSE Max(Ids(all_todos)) + 1]_vars

\* C6: delete of an existing id removes exactly the record with that id, keeps the
\* others in order, hands back the removed record, and a get of the id right
\* afterwards ends with 404; a delete answered 200 has shortened all_todos by one.
DeleteRemovesExactlyOne ==
    /\ [](\A id \in Ids(all_todos) :
            LET out == DeleteTodo(all_todos, id) IN
            /\ out.outcome = "return"
            /\ Len(out.todos) = Len(all_todos) - 1
            /\ out.todos = Without(all_todos, id)
            /\ out.result = <<RecordWith(all_todos, id)>>
            /\ GetTodo(out.todos, id) = Outcome(out.todos, "HTTPException", 404, <<>>))
    /\ [][(response'.op = "delete_todo" /\ response'.status_code = 200)
          => /\ Len(all_todos') = Len(all_todos) - 1
             /\ \E id \in Ids(all_todos) : all_todos' = Without(all_todos, id)]_vars

\* A delete took a record out of the middle of the list.
DeleteWitness ==
    /\ response.op = "delete_todo"
    /\ response.status_code = 200
    /\ Ids(all_todos) = {1, 2, 4, 5}

\* C7: a create whose body has a valid name and description and no priority is
\* accepted and stores a Todo of priority LOW.
DefaultPriorityLow ==
    [][\A body \in CreateBodies :
         (/\ ~IsNone(body.todo_name)
          /\ Len(Value(body.todo_name)) >= NameMinLength
          /\ Len(Value(body.todo_name)) <= NameMaxLength
          /\ ~IsNone(body.todo_description)
          /\ Len(Value(body.todo_description)) <= DescriptionMaxLength
          /\ IsNone(body.priority)
          /\ create_todo(body))
         => /\ response'.status_code = 201
            /\ Len(all_todos') = Len(all_todos) + 1
            /\ Last(all_todos').priority = LOW]_vars

\* C8: the list read hands back the first min(n, size) records for n >= 1 and the
\* whole list for n = 0; for no n does it return normally anything but that prefix
\* or the whole list; it never changes all_todos.
FirstNPrefixOrAll ==
    [][\A param \in FirstNs :
         get_todo_first_n(param)
         => LET n == IF IsNone(param) THEN DefaultFirstN ELSE Value(param)
                out == GetTodoFirstN(all_todos, param)
                prefix == SubSeq(all_todos, 1, Min2(n, Len(all_todos)))
            IN  /\ all_todos' = all_todos
                /\ n >= 1 => (out.outcome = "return" /\ out.result = prefix)
                /\ n = 0 => (out.outcome = "return" /\ out.result = all_todos)
                /\ out.outcome = "return" => out.result \in {prefix, all_todos}]_vars

\* C9 as claimed: the id a create assigns is greater than every id that was ever
\* in the list (the seed's and those of earlier creates, deleted or not).
IdsNeverReused ==
    [][response'.status_code = 201
         => \A id \in ever_ids : Last(all_todos').todo_id > id]_vars

\* C9 as amended: the id a create assigns is greater than every id in the list at
\* that moment, and at most one more than the greatest id that was ever in it.
NewIdAboveCurrentIds ==
    [][response'.status_code = 201
         => /\ \A id \in Ids(all_todos) : Last(all_todos').todo_id > id
            /\ Last(all_todos').todo_id <= Max(ever_ids) + 1]_vars

\* A create has just assigned the id of a deleted seed record again.
IdReusedWitness ==
    /\ response.op = "create_todo"
    /\ response.status_code = 201
    /\ Len(all_todos) > 0
    /\ Last(all_todos).todo_id \in Ids(SeedTodos)
    /\ Ids(all_todos) # Ids(SeedTodos)

\* C10: with create_todo behind one lock no two records share an id, and two
\* threads are never both between scan and append.
SerializedCreatesUnique ==
    serialized =>
        /\ Cardinality(Ids(all_todos)) = Len(all_todos)
        /\ \A t, u \in Threads : (pc[t] = "append" /\ pc[u] = "append") => t = u

\* Without the lock: both threads computed the same new_todo_id and all_todos
\* holds two records with that id.
RaceDuplicateIds ==
    /\ ~serialized
    /\ new_todo_id[1] = new_todo_id[2]
    /\ \E i, j \in 1..Len(all_todos) :
          /\ i < j
          /\ all_todos[i].todo_id = new_todo_id[1]
          /\ all_todos[j].todo_id = new_todo_id[1]

====
